---- MODULE Spec2Model ----
(***************************************************************************)
(* A model of @afpia/fetcher (src/src/index.ts): the Fetcher client, its   *)
(* verb methods, the shared request routine, createSearchParams and the    *)
(* FetcherError raised for responses that are not ok.                      *)
(*                                                                         *)
(* JavaScript values are tagged records, objects whose key order matters   *)
(* (query parameters, JSON bodies) are sequences of [key, value] entries   *)
(* in insertion order, and objects whose key order does not matter         *)
(* (headers, fetch options) are functions from keys to values.             *)
(***************************************************************************)
EXTENDS Integers, Sequences, FiniteSets, TLC

VARIABLES self, calls, invoked

vars == <<self, calls, invoked>>

(* The number of call slots: calls that may be open at the same time. *)
MaxCalls == 2

CallIds == 1..MaxCalls

---------------------------------------------------------------------------
(* JavaScript values *)

Str(s) == [t |-> "string", s |-> s]

Num(n) == [t |-> "number", n |-> n]

Bool(b) == [t |-> "boolean", b |-> b]

Undefined == [t |-> "undefined"]

Null == [t |-> "null"]

Arr(items) == [t |-> "array", items |-> items]

Obj(entries) == [t |-> "object", entries |-> entries]

Entry(k, v) == [key |-> k, value |-> v]

(* if (value): "", 0, false, undefined and null are falsy; arrays and objects are truthy *)
Truthy(v) ==
  CASE v.t = "string" -> v.s # ""
    [] v.t = "number" -> v.n # 0
    [] v.t = "boolean" -> v.b
    [] v.t = "undefined" -> FALSE
    [] v.t = "null" -> FALSE
    [] OTHER -> TRUE

Digits == "0123456789"

RECURSIVE NatToString(_)
NatToString(n) ==
  IF n < 10 THEN SubSeq(Digits, n + 1, n + 1)
  ELSE NatToString(n \div 10) \o SubSeq(Digits, (n % 10) + 1, (n % 10) + 1)

(* value.toString() of a string, a number or a boolean *)
toString(v) ==
  CASE v.t = "string" -> v.s
    [] v.t = "number" -> IF v.n < 0 THEN "-" \o NatToString(0 - v.n) ELSE NatToString(v.n)
    [] v.t = "boolean" -> IF v.b THEN "true" ELSE "false"

(* String.prototype.includes *)
Includes(s, sub) ==
  \E i \in 1..(Len(s) - Len(sub) + 1) : SubSeq(s, i, i + Len(sub) - 1) = sub

---------------------------------------------------------------------------
(* Objects in insertion order *)

HasOwn(o, k) == \E i \in 1..Len(o) : o[i].key = k

Prop(o, k) ==
  IF HasOwn(o, k) THEN o[CHOOSE i \in 1..Len(o) : o[i].key = k].value ELSE Undefined

(* { ...a, ...b }: a's keys keep their place, b's values win, b's new keys follow *)
ObjSpread(a, b) ==
  [i \in 1..Len(a) |-> IF HasOwn(b, a[i].key) THEN Entry(a[i].key, Prop(b, a[i].key)) ELSE a[i]]
    \o SelectSeq(b, LAMBDA e : ~HasOwn(a, e.key))

(* for (const key in o): the keys in insertion order (no key here is an
   integer index, which for-in would visit first) *)
ForInKeys(o) == [i \in 1..Len(o) |-> o[i].key]

(* { ...a, ...b } of objects whose key order does not matter *)
Spread(a, b) == b @@ a

NoFields == <<>>

---------------------------------------------------------------------------
(* URLSearchParams *)

SpAppend(sp, name, value) == Append(sp, <<name, value>>)

(* set: the first entry of that name takes the value and the others go; else append *)
SpSet(sp, name, value) ==
  IF \E i \in 1..Len(sp) : sp[i][1] = name
  THEN LET first == CHOOSE i \in 1..Len(sp) :
                      /\ sp[i][1] = name
                      /\ \A j \in 1..(i - 1) : sp[j][1] # name
           kept == {i \in 1..Len(sp) : sp[i][1] # name \/ i = first}
           at(n) == CHOOSE i \in kept : Cardinality({j \in kept : j < i}) = n - 1
       IN [n \in 1..Cardinality(kept) |->
             IF at(n) = first THEN <<name, value>> ELSE sp[at(n)]]
  ELSE SpAppend(sp, name, value)

Unreserved == "ABCDEFGHIJKLMNOPQRSTUVWXYZabcdefghijklmnopqrstuvwxyz0123456789*-._"

Escaped == " !#$%&'()+,/:;=?@"

EscapedAs == <<"+", "%21", "%23", "%24", "%25", "%26", "%27", "%28", "%29", "%2B",
               "%2C", "%2F", "%3A", "%3B", "%3D", "%3F", "%40">>

(* application/x-www-form-urlencoded serialisation of one character *)
EncodeChar(ch) ==
  IF Includes(Unreserved, ch) THEN ch
  ELSE EscapedAs[CHOOSE i \in 1..Len(Escaped) : SubSeq(Escaped, i, i) = ch]

RECURSIVE FormEncode(_)
FormEncode(s) ==
  IF s = "" THEN ""
  ELSE EncodeChar(SubSeq(s, 1, 1)) \o FormEncode(SubSeq(s, 2, Len(s)))

RECURSIVE SpToString(_)
SpToString(sp) ==
  IF Len(sp) = 0 THEN ""
  ELSE FormEncode(sp[1][1]) \o "=" \o FormEncode(sp[1][2])
         \o (IF Len(sp) = 1 THEN "" ELSE "&" \o SpToString(Tail(sp)))

---------------------------------------------------------------------------
(* Fetcher.createSearchParams *)

(* value.forEach(currentValue => { if (currentValue) searchParams.append(...) }) *)
RECURSIVE AppendEach(_, _, _)
AppendEach(sp, key, items) ==
  IF Len(items) = 0 THEN sp
  ELSE AppendEach(IF Truthy(Head(items)) THEN SpAppend(sp, key, toString(Head(items))) ELSE sp,
                  key, Tail(items))

(* VisitKey with a test for absence where the code tests truthiness *)
VisitKeyAbsence(sp, params, key) ==
  IF HasOwn(params, key)
  THEN LET value == Prop(params, key)
       IN IF value.t = "array" THEN AppendEach(sp, key, value.items)
          ELSE IF value.t # "undefined" THEN SpSet(sp, key, toString(value))
          ELSE sp
  ELSE sp

(* The body of the for-in loop for one key *)
VisitKey(sp, params, key) ==
  IF HasOwn(params, key)
  THEN LET value == Prop(params, key)
       IN IF value.t = "array" THEN AppendEach(sp, key, value.items)
          ELSE IF Truthy(value) THEN SpSet(sp, key, toString(value))
          ELSE sp
  ELSE sp

RECURSIVE VisitKeys(_, _, _)
VisitKeys(sp, params, keys) ==
  IF Len(keys) = 0 THEN sp
  ELSE VisitKeys(VisitKey(sp, params, Head(keys)), params, Tail(keys))

(* The URLSearchParams the loop leaves behind *)
SearchParamsOf(this, params) ==
  VisitKeys(<<>>, params, ForInKeys(ObjSpread(this.params, params)))

createSearchParams(this, params) == "?" \o SpToString(SearchParamsOf(this, params))

---------------------------------------------------------------------------
(* JSON *)

Quote(s) == "\"" \o s \o "\""

RECURSIVE JsonStringify(_)
RECURSIVE JsonMembers(_)
JsonMembers(entries) ==
  IF Len(entries) = 0 THEN ""
  ELSE Quote(entries[1].key) \o ":" \o JsonStringify(entries[1].value)
         \o (IF Len(entries) = 1 THEN "" ELSE "," \o JsonMembers(Tail(entries)))

(* JSON.stringify of objects of strings, numbers and booleans *)
JsonStringify(v) ==
  CASE v.t = "string" -> Quote(v.s)
    [] v.t = "number" -> toString(v)
    [] v.t = "boolean" -> toString(v)
    [] v.t = "null" -> "null"
    [] v.t = "object" -> "{" \o JsonMembers(v.entries) \o "}"

(* response.json() on the texts the transport may deliver; any other text is
   not JSON and the decoding throws a SyntaxError *)
JsonTexts ==
  {"{\"message\":\"boom\"}", "{\"message\":\"\"}", "{\"id\":7}", "{}", "null", "\"hi\""}

JsonParse(text) ==
  CASE text = "{\"message\":\"boom\"}" -> Obj(<<Entry("message", Str("boom"))>>)
    [] text = "{\"message\":\"\"}" -> Obj(<<Entry("message", Str(""))>>)
    [] text = "{\"id\":7}" -> Obj(<<Entry("id", Num(7))>>)
    [] text = "{}" -> Obj(<<>>)
    [] text = "null" -> Null
    [] text = "\"hi\"" -> Str("hi")

(* error?.message *)
OptionalMessage(error) ==
  IF error.t = "object" THEN Prop(error.entries, "message") ELSE Undefined

---------------------------------------------------------------------------
(* Fetcher.request, up to the call of fetch *)

HeadersOf(options) ==
  IF "headers" \in DOMAIN options THEN options["headers"] ELSE NoFields

(* RequestUrl with a test for a non-empty params where the code tests truthiness *)
RequestUrlNonEmpty(this, endpoint, options) ==
  this.baseUrl \o "/" \o endpoint
    \o (IF "params" \in DOMAIN options /\ Len(options["params"]) > 0
        THEN createSearchParams(this, options["params"]) ELSE "")

(* let url = `${this.baseUrl}/${endpoint}`; if (options.params) url += ... *)
RequestUrl(this, endpoint, options) ==
  this.baseUrl \o "/" \o endpoint
    \o (IF "params" \in DOMAIN options
        THEN createSearchParams(this, options["params"]) ELSE "")

(* RequestHeaders with the two spreads in the other order *)
RequestHeadersCallWins(this, options) == Spread(this.headers, HeadersOf(options))

(* headers: { ...options.headers, ...this.headers } *)
RequestHeaders(this, options) == Spread(HeadersOf(options), this.headers)

(* RequestConfig with the two spreads of options in the other order *)
RequestConfigCallWins(this, method, options) ==
  Spread(Spread(this.options, options),
         ("method" :> method @@ "headers" :> RequestHeaders(this, options)))

(* { ...options, ...this.options, method, headers } *)
RequestConfig(this, method, options) ==
  Spread(Spread(options, this.options),
         ("method" :> method @@ "headers" :> RequestHeaders(this, options)))

JsonContentType == ("Content-Type" :> "application/json")

(* BodyOptions with the Content-Type default spread after the caller's headers *)
BodyOptionsFixedType(body, options) ==
  Spread(Spread(options, ("headers" :> Spread(HeadersOf(options), JsonContentType))),
         IF Truthy(body) THEN ("body" :> JsonStringify(body)) ELSE NoFields)

(* The options post, put and patch hand to request *)
BodyOptions(body, options) ==
  Spread(Spread(options, ("headers" :> Spread(JsonContentType, HeadersOf(options)))),
         IF Truthy(body) THEN ("body" :> JsonStringify(body)) ELSE NoFields)

---------------------------------------------------------------------------
(* The transport: responses and failures of fetch *)

Response(status, statusText, contentType, body) ==
  [ok |-> status \in 200..299, status |-> status, statusText |-> statusText,
   contentType |-> contentType, body |-> body]

(* response.headers.get('Content-Type') is null when the header is absent *)
OkResponses ==
  {Response(200, "OK", ct, b) :
     ct \in {Null, Str("application/json; charset=utf-8"), Str("text/plain")},
     b \in {"{\"id\":7}", "<html>"}}

ErrorResponses ==
  {Response(404, "Not Found", Str("application/json"), b) :
     b \in {"{\"message\":\"boom\"}", "{\"message\":\"\"}", "{}", "null", "<html>"}}
    \cup {Response(500, "Internal Server Error", Str("text/html"), "<html>")}

Responses == OkResponses \cup ErrorResponses

TransportFailures ==
  {[type |-> "TypeError", message |-> "fetch failed"],
   [type |-> "AbortError", message |-> "The operation was aborted"]}

NoFailure == [type |-> "none"]

(* IsJsonResponse with an equality where the code tests includes *)
IsJsonResponseExact(response) == response.contentType = Str("application/json")

(* response.headers.get('Content-Type')?.includes('application/json') *)
IsJsonResponse(response) ==
  /\ response.contentType.t = "string"
  /\ Includes(response.contentType.s, "application/json")

FetcherError(statusCode, message) ==
  [type |-> "FetcherError", statusCode |-> statusCode, message |-> message]

SyntaxError == [type |-> "SyntaxError", message |-> "Unexpected token"]

Resolved(value) == [kind |-> "resolved", value |-> value]

Rejected(error) == [kind |-> "rejected", error |-> error]

Pending == [kind |-> "pending"]

NoResponse == [ok |-> FALSE, status |-> 0, statusText |-> "", contentType |-> Null, body |-> ""]

IdleCall ==
  [pc |-> "idle", url |-> "", config |-> NoFields, response |-> NoResponse,
   failure |-> NoFailure, result |-> Pending, fetches |-> 0, settles |-> 0]

NotInvoked == [verb |-> "none"]

Invocation(verb, endpoint, body, options) ==
  [verb |-> verb, endpoint |-> endpoint, body |-> body, options |-> options,
   this |-> self]

---------------------------------------------------------------------------
(* The client and the inputs of its methods *)

BaseUrls == {"https://api.test"}

Endpoints == {"items"}

DefaultHeaders == {NoFields, ("A" :> "1"), ("Content-Type" :> "text/plain")}

DefaultParams ==
  {<<>>, <<Entry("lang", Str("ru")), Entry("tags", Arr(<<Str("z")>>))>>}

DefaultOptions ==
  {NoFields,
   ("credentials" :> "include" @@ "method" :> "TRACE"
      @@ "headers" :> ("X" :> "9") @@ "body" :> "fixed")}

ExampleParams ==
  <<Entry("q", Str("x")), Entry("page", Num(0)),
    Entry("tags", Arr(<<Str("a"), Str("b")>>)), Entry("flag", Bool(FALSE))>>

MixedParams ==
  <<Entry("tags", Arr(<<Str("a"), Str(""), Num(0), Undefined, Bool(FALSE),
                        Num(12), Bool(TRUE), Str("b c")>>)),
    Entry("lang", Str("en")), Entry("n", Num(7)), Entry("on", Bool(TRUE)),
    Entry("none", Undefined)>>

FalsyParams ==
  <<Entry("page", Num(0)), Entry("flag", Bool(FALSE)), Entry("e", Str("")),
    Entry("lang", Undefined), Entry("tags", Arr(<<>>))>>

CallParams == {<<>>, ExampleParams, MixedParams, FalsyParams}

CallHeaders == {("A" :> "2" @@ "B" :> "3"), ("Content-Type" :> "text/xml")}

CallExtras ==
  {("credentials" :> "omit" @@ "method" :> "HEAD" @@ "cache" :> "no-store"),
   ("body" :> "raw")}

CallOptions ==
  {Spread(h, x) :
     h \in {NoFields} \cup {("headers" :> hs) : hs \in CallHeaders},
     x \in {NoFields} \cup {("params" :> ps) : ps \in CallParams} \cup CallExtras}

(* get and delete take Omit<RequestOptions, 'body'> *)
BodilessOptions == {o \in CallOptions : "body" \notin DOMAIN o}

Bodies == {Undefined, Obj(<<Entry("name", Str("a"))>>)}

Configs ==
  [baseUrl : BaseUrls, headers : DefaultHeaders, params : DefaultParams,
   options : DefaultOptions]

(* new Fetcher(init) *)
Fetcher(init) ==
  /\ self = [baseUrl |-> init.baseUrl, headers |-> init.headers,
             params |-> init.params, options |-> init.options]
  /\ calls = [c \in CallIds |-> IdleCall]
  /\ invoked = [c \in CallIds |-> NotInvoked]

---------------------------------------------------------------------------
(* The methods *)

(* Request writing the merged headers back into this.headers *)
RequestMerging(c, endpoint, method, options) ==
  /\ calls[c].pc = "idle"
  /\ calls' = [calls EXCEPT ![c] =
                 [pc |-> "fetching",
                  url |-> RequestUrl(self, endpoint, options),
                  config |-> RequestConfig(self, method, options),
                  response |-> NoResponse,
                  failure |-> NoFailure,
                  result |-> Pending,
                  fetches |-> @.fetches + 1,
                  settles |-> @.settles]]
  /\ self' = [self EXCEPT !.headers = RequestHeaders(self, options)]

(* request, from its entry to the call of fetch: it runs without suspending *)
Request(c, endpoint, method, options) ==
  /\ calls[c].pc = "idle"
  /\ calls' = [calls EXCEPT ![c] =
                 [pc |-> "fetching",
                  url |-> RequestUrl(self, endpoint, options),
                  config |-> RequestConfig(self, method, options),
                  response |-> NoResponse,
                  failure |-> NoFailure,
                  result |-> Pending,
                  fetches |-> @.fetches + 1,
                  settles |-> @.settles]]
  /\ UNCHANGED self

Get(c, endpoint, options) ==
  /\ Request(c, endpoint, "GET", options)
  /\ invoked' = [invoked EXCEPT ![c] = Invocation("get", endpoint, Undefined, options)]

Delete(c, endpoint, options) ==
  /\ Request(c, endpoint, "DELETE", options)
  /\ invoked' = [invoked EXCEPT ![c] = Invocation("delete", endpoint, Undefined, options)]

Post(c, endpoint, body, options) ==
  /\ Request(c, endpoint, "POST", BodyOptions(body, options))
  /\ invoked' = [invoked EXCEPT ![c] = Invocation("post", endpoint, body, options)]

Put(c, endpoint, body, options) ==
  /\ Request(c, endpoint, "PUT", BodyOptions(body, options))
  /\ invoked' = [invoked EXCEPT ![c] = Invocation("put", endpoint, body, options)]

Patch(c, endpoint, body, options) ==
  /\ Request(c, endpoint, "PATCH", BodyOptions(body, options))
  /\ invoked' = [invoked EXCEPT ![c] = Invocation("patch", endpoint, body, options)]

(* await fetch(url, config) delivers a response: request goes on to decode its body *)
FetchResponds(c, response) ==
  /\ calls[c].pc = "fetching"
  /\ calls' = [calls EXCEPT ![c].response = response,
                            ![c].pc = IF ~response.ok THEN "error-json"
                                      ELSE IF IsJsonResponse(response) THEN "json"
                                      ELSE "text"]
  /\ UNCHANGED <<self, invoked>>

(* The promise request returned settles *)
Settle(c, result) ==
  /\ calls' = [calls EXCEPT ![c].pc = "settled", ![c].result = result,
                            ![c].settles = @ + 1]
  /\ UNCHANGED <<self, invoked>>

(* FetchFails with the failure caught and wrapped in a FetcherError *)
FetchFailsWrapped(c, failure) ==
  /\ calls[c].pc = "fetching"
  /\ calls' = [calls EXCEPT ![c].pc = "settled", ![c].failure = failure,
                            ![c].result = Rejected(FetcherError(0, Str(failure.message))),
                            ![c].settles = @ + 1]
  /\ UNCHANGED <<self, invoked>>

(* await fetch(url, config) throws: nothing in request catches it *)
FetchFails(c, failure) ==
  /\ calls[c].pc = "fetching"
  /\ calls' = [calls EXCEPT ![c].pc = "settled", ![c].failure = failure,
                            ![c].result = Rejected(failure), ![c].settles = @ + 1]
  /\ UNCHANGED <<self, invoked>>

(* const error = await response.json(); throw new FetcherError(...) *)
ErrorDecoded(c) ==
  /\ calls[c].pc = "error-json"
  /\ LET response == calls[c].response
     IN IF response.body \in JsonTexts
        THEN LET message == OptionalMessage(JsonParse(response.body))
             IN Settle(c, Rejected(FetcherError(response.status,
                            IF Truthy(message) THEN message
                            ELSE Str(response.statusText))))
        ELSE Settle(c, Rejected(SyntaxError))

(* return await response.json() *)
JsonDecoded(c) ==
  /\ calls[c].pc = "json"
  /\ IF calls[c].response.body \in JsonTexts
     THEN Settle(c, Resolved(JsonParse(calls[c].response.body)))
     ELSE Settle(c, Rejected(SyntaxError))

(* return await response.text() *)
TextDecoded(c) ==
  /\ calls[c].pc = "text"
  /\ Settle(c, Resolved(Str(calls[c].response.body)))

(* The caller is done with a settled call; its slot serves the next call *)
Release(c) ==
  /\ calls[c].pc = "settled"
  /\ calls' = [calls EXCEPT ![c] = IdleCall]
  /\ invoked' = [invoked EXCEPT ![c] = NotInvoked]
  /\ UNCHANGED self

(* The public fields may be reassigned by whoever holds the client *)
SetHeaders(headers) ==
  /\ self' = [self EXCEPT !.headers = headers]
  /\ UNCHANGED <<calls, invoked>>

SetParams(params) ==
  /\ self' = [self EXCEPT !.params = params]
  /\ UNCHANGED <<calls, invoked>>

SetOptions(options) ==
  /\ self' = [self EXCEPT !.options = options]
  /\ UNCHANGED <<calls, invoked>>

---------------------------------------------------------------------------
(* One call at a time, over every configuration and every input *)

(* A call takes the first idle slot *)
FirstIdle(c) ==
  /\ calls[c].pc = "idle"
  /\ \A d \in CallIds : d < c => calls[d].pc # "idle"

Alone(c) == FirstIdle(c) /\ \A d \in CallIds : calls[d].pc = "idle"

Init == \E init \in Configs : Fetcher(init)

Next ==
  \E c \in CallIds :
    \/ \E e \in Endpoints, o \in BodilessOptions : Alone(c) /\ Get(c, e, o)
    \/ \E e \in Endpoints, o \in BodilessOptions : Alone(c) /\ Delete(c, e, o)
    \/ \E e \in Endpoints, b \in Bodies, o \in CallOptions : Alone(c) /\ Post(c, e, b, o)
    \/ \E e \in Endpoints, b \in Bodies, o \in CallOptions : Alone(c) /\ Put(c, e, b, o)
    \/ \E e \in Endpoints, b \in Bodies, o \in CallOptions : Alone(c) /\ Patch(c, e, b, o)
    \/ \E r \in Responses : FetchResponds(c, r)
    \/ \E f \in TransportFailures : FetchFails(c, f)
    \/ ErrorDecoded(c)
    \/ JsonDecoded(c)
    \/ TextDecoded(c)
    \/ Release(c)

Spec == Init /\ [][Next]_vars

---------------------------------------------------------------------------
(* Calls in flight together while the holder reassigns the public fields *)

(* The holder gives each public field a new value *)
NewHeaders == {("A" :> "1")}

NewParams == DefaultParams \ {<<>>}

NewOptions == DefaultOptions \ {NoFields}

ConcOptions ==
  {("headers" :> ("A" :> "2" @@ "B" :> "3") @@ "params" :> ExampleParams
      @@ "credentials" :> "omit")}

ConcResponses ==
  {Response(200, "OK", Str("application/json; charset=utf-8"), "{\"id\":7}"),
   Response(404, "Not Found", Str("application/json"), "{\"message\":\"boom\"}")}

InitConc ==
  Fetcher([baseUrl |-> "https://api.test", headers |-> NoFields, params |-> <<>>,
           options |-> NoFields])

NextConc ==
  \/ \E c \in CallIds :
       \/ \E e \in Endpoints, o \in ConcOptions : FirstIdle(c) /\ Get(c, e, o)
       \/ \E r \in ConcResponses : FetchResponds(c, r)
       \/ ErrorDecoded(c)
       \/ JsonDecoded(c)
       \/ Release(c)
  \/ \E h \in NewHeaders : SetHeaders(h)
  \/ \E p \in NewParams : SetParams(p)
  \/ \E o \in NewOptions : SetOptions(o)

SpecConc == InitConc /\ [][NextConc]_vars

---------------------------------------------------------------------------
(* What the properties below speak of *)

Dispatched(c) == calls[c].pc # "idle"

Settled(c) == calls[c].pc = "settled"

GotResponse(c) == calls[c].response # NoResponse

BodyVerbs == {"post", "put", "patch"}

CallHeadersOf(c) == HeadersOf(invoked[c].options)

HasParams(c) == "params" \in DOMAIN invoked[c].options

Address(c) == invoked[c].this.baseUrl \o "/" \o invoked[c].endpoint

---------------------------------------------------------------------------

C1_ClaimedMessage(response) ==
  IF response.body \in JsonTexts
       /\ JsonParse(response.body).t = "object"
       /\ HasOwn(JsonParse(response.body).entries, "message")
  THEN Prop(JsonParse(response.body).entries, "message")
  ELSE Str(response.statusText)

(* C1: a response that is not ok, whatever its body, makes the call reject
   with a FetcherError carrying the response's status and, as message, the
   body's message field when the body is JSON and has one, and the status
   text otherwise (no such field, or a body that is not JSON). *)
C1_ErrorSignal ==
  \A c \in CallIds :
    (Settled(c) /\ GotResponse(c) /\ ~calls[c].response.ok)
      => calls[c].result =
           Rejected(FetcherError(calls[c].response.status,
                                 C1_ClaimedMessage(calls[c].response)))

---------------------------------------------------------------------------

C4_ClaimedPair(key, value) == FormEncode(key) \o "=" \o FormEncode(toString(value))

(* C4: the default query parameters are sent with every request: a key that
   only the defaults hold, with a truthy value, is in the dispatched URL,
   also when the call supplies no params at all. *)
C4_DefaultParamsSent ==
  \A c \in CallIds :
    Dispatched(c) =>
      \A i \in 1..Len(invoked[c].this.params) :
        LET e == invoked[c].this.params[i]
            own == IF HasParams(c) THEN invoked[c].options["params"] ELSE <<>>
        IN (~HasOwn(own, e.key) /\ e.value.t # "array" /\ Truthy(e.value))
             => Includes(calls[c].url, C4_ClaimedPair(e.key, e.value))

---------------------------------------------------------------------------

C5_Dropped(v) == v \in {Num(0), Str(""), Bool(FALSE), Undefined}

C5_Kept(items) == SelectSeq(items, LAMBDA x : ~C5_Dropped(x))

C5_Entries(key, value) ==
  IF value.t = "array"
  THEN [i \in 1..Len(C5_Kept(value.items)) |-> <<key, toString(C5_Kept(value.items)[i])>>]
  ELSE IF C5_Dropped(value) THEN <<>> ELSE << <<key, toString(value)>> >>

RECURSIVE C5_Query(_, _)
C5_Query(keys, params) ==
  IF Len(keys) = 0 THEN <<>>
  ELSE (IF HasOwn(params, Head(keys)) THEN C5_Entries(Head(keys), Prop(params, Head(keys)))
        ELSE <<>>)
         \o C5_Query(Tail(keys), params)

(* C5: the query string holds, for every key of the call's params, one entry
   for a scalar that is not 0, "", false or undefined and none for one that
   is, and for a sequence one entry per element that is none of these, in
   the sequence's order; {q:"x", page:0, tags:["a","b"], flag:false} gives
   q=x&tags=a&tags=b. *)
C5_TruthinessFilter ==
  \A c \in CallIds :
    (Dispatched(c) /\ HasParams(c)) =>
      LET params == invoked[c].options["params"]
          keys == ForInKeys(ObjSpread(invoked[c].this.params, params))
      IN /\ calls[c].url = Address(c) \o "?" \o SpToString(C5_Query(keys, params))
         /\ (params = ExampleParams /\ invoked[c].this.params = <<>>)
              => calls[c].url = Address(c) \o "?q=x&tags=a&tags=b"

C5_Witness ==
  \E c \in CallIds :
    /\ Dispatched(c) /\ HasParams(c)
    /\ invoked[c].options["params"] = MixedParams
    /\ calls[c].url = "https://api.test/items?tags=a&tags=12&tags=true&tags=b+c&lang=en&n=7&on=true"

---------------------------------------------------------------------------
(* C2: the dispatched headers are the key-wise union of the call's headers
   and the client's default headers, the default winning on a key of both;
   as claimed, for every verb and with no other key. *)
C2_ClaimedUnion ==
  \A c \in CallIds :
    Dispatched(c) =>
      calls[c].config["headers"] = Spread(CallHeadersOf(c), invoked[c].this.headers)

C2_VerbDefault(c) == IF invoked[c].verb \in BodyVerbs THEN JsonContentType ELSE NoFields

(* C2, amended: the same union for get and delete; for post, put and patch
   the union also holds Content-Type: application/json, which yields to the
   call's and to the default's value for that key. *)
C2_HeaderPrecedence ==
  \A c \in CallIds :
    Dispatched(c) =>
      LET sent == calls[c].config["headers"]
          own == CallHeadersOf(c)
          default == invoked[c].this.headers
      IN /\ DOMAIN sent = DOMAIN own \cup DOMAIN default \cup DOMAIN C2_VerbDefault(c)
         /\ \A k \in DOMAIN sent :
              sent[k] = IF k \in DOMAIN default THEN default[k]
                        ELSE IF k \in DOMAIN own THEN own[k]
                        ELSE C2_VerbDefault(c)[k]

C2_Witness ==
  \E c \in CallIds :
    /\ Dispatched(c)
    /\ invoked[c].verb = "get"
    /\ invoked[c].this.headers = ("A" :> "1")
    /\ CallHeadersOf(c) = ("A" :> "2" @@ "B" :> "3")
    /\ calls[c].config["headers"] = ("A" :> "1" @@ "B" :> "3")

---------------------------------------------------------------------------

C3_ClaimedType(c) ==
  IF "Content-Type" \in DOMAIN CallHeadersOf(c)
  THEN CallHeadersOf(c)["Content-Type"] ELSE "application/json"

(* C3: post, put and patch with a body dispatch its JSON serialisation and
   Content-Type: application/json unless the call's headers give a
   Content-Type (then the caller's); without a body the request has no body
   field; as claimed, under every client configuration. *)
C3_ClaimedBody ==
  \A c \in CallIds :
    (Dispatched(c) /\ invoked[c].verb \in BodyVerbs) =>
      IF invoked[c].body # Undefined
      THEN /\ "body" \in DOMAIN calls[c].config
           /\ calls[c].config["body"] = JsonStringify(invoked[c].body)
           /\ calls[c].config["headers"]["Content-Type"] = C3_ClaimedType(c)
      ELSE "body" \notin DOMAIN calls[c].config

(* C3, amended: the client's defaults come first. The body field is the
   default transport options' body when they have one; else the JSON
   serialisation of the body given; else, with no body given, the body of
   the call's options, and absent when they have none. Content-Type is the
   default headers' when they have one, else the caller's, else
   application/json. *)
C3_BodyAndType ==
  \A c \in CallIds :
    (Dispatched(c) /\ invoked[c].verb \in BodyVerbs) =>
      LET defaults == invoked[c].this.options
          own == invoked[c].options
          sent == calls[c].config
      IN /\ IF "body" \in DOMAIN defaults THEN sent["body"] = defaults["body"]
            ELSE IF invoked[c].body # Undefined
                 THEN sent["body"] = JsonStringify(invoked[c].body)
            ELSE IF "body" \in DOMAIN own THEN sent["body"] = own["body"]
            ELSE "body" \notin DOMAIN sent
         /\ sent["headers"]["Content-Type"] =
              IF "Content-Type" \in DOMAIN invoked[c].this.headers
              THEN invoked[c].this.headers["Content-Type"]
              ELSE C3_ClaimedType(c)

C3_Witness ==
  \E c \in CallIds :
    /\ Dispatched(c)
    /\ invoked[c].verb = "post"
    /\ invoked[c].body = Obj(<<Entry("name", Str("a"))>>)
    /\ CallHeadersOf(c) = ("Content-Type" :> "text/xml")
    /\ invoked[c].this.headers = NoFields
    /\ calls[c].config["body"] = "{\"name\":\"a\"}"
    /\ calls[c].config["headers"]["Content-Type"] = "text/xml"

---------------------------------------------------------------------------
(* C6: the dispatched address is baseUrl, "/" and the endpoint, with no "?"
   suffix when the call supplies no params or, as claimed, an empty params
   mapping. *)
C6_ClaimedNoSuffix ==
  \A c \in CallIds :
    (Dispatched(c) /\ (~HasParams(c) \/ invoked[c].options["params"] = <<>>))
      => calls[c].url = Address(c)

(* C6, amended: the suffix is there exactly when the call supplies a params
   mapping: none without params, and a lone "?" for an empty mapping. *)
C6_Address ==
  \A c \in CallIds :
    Dispatched(c) =>
      IF HasParams(c)
      THEN /\ Len(calls[c].url) > Len(Address(c))
           /\ SubSeq(calls[c].url, 1, Len(Address(c)) + 1) = Address(c) \o "?"
           /\ invoked[c].options["params"] = <<>> => calls[c].url = Address(c) \o "?"
      ELSE calls[c].url = Address(c)

C6_Witness ==
  \E c \in CallIds :
    /\ invoked[c].verb = "get" /\ ~HasParams(c)
    /\ invoked[c].this.baseUrl = "https://api.test" /\ invoked[c].endpoint = "items"
    /\ calls[c].url = "https://api.test/items"
    /\ calls[c].config["method"] = "GET"

---------------------------------------------------------------------------

C7_SaysJson(response) ==
  /\ response.contentType # Null
  /\ Includes(response.contentType.s, "application/json")

(* C7: after a response that is ok, the call resolves with the decoded JSON
   body when the Content-Type header holds application/json and with the
   text of the body in every other case, the header's absence included; it
   resolves with nothing else and never rejects with a FetcherError. *)
C7_Decoding ==
  \A c \in CallIds :
    (Settled(c) /\ GotResponse(c) /\ calls[c].response.ok) =>
      LET response == calls[c].response
          result == calls[c].result
      IN /\ (~C7_SaysJson(response) \/ response.body \in JsonTexts)
              => result.kind = "resolved"
         /\ result.kind = "resolved"
              => result.value = IF C7_SaysJson(response) THEN JsonParse(response.body)
                                ELSE Str(response.body)
         /\ result.kind = "rejected" => result.error.type # "FetcherError"

C7_Witness ==
  \E c \in CallIds :
    /\ Settled(c)
    /\ calls[c].response =
         Response(200, "OK", Str("application/json; charset=utf-8"), "{\"id\":7}")
    /\ calls[c].result = Resolved(Obj(<<Entry("id", Num(7))>>))

---------------------------------------------------------------------------

C8_Failed(c) ==
  \/ calls[c].failure # NoFailure
  \/ GotResponse(c) /\ ~calls[c].response.ok
  \/ GotResponse(c) /\ C7_SaysJson(calls[c].response)
       /\ calls[c].response.body \notin JsonTexts

(* C8: a call issues exactly one request and settles exactly once, whatever
   the outcome; a failure is never a resolved value; a transport failure
   rejects with the very failure fetch raised, not with a FetcherError. *)
C8_OneRequestOneOutcome ==
  \A c \in CallIds :
    /\ calls[c].fetches = (IF Dispatched(c) THEN 1 ELSE 0)
    /\ calls[c].settles = (IF Settled(c) THEN 1 ELSE 0)
    /\ Settled(c) <=> calls[c].result # Pending
    /\ (Settled(c) /\ C8_Failed(c)) => calls[c].result.kind = "rejected"
    /\ (Settled(c) /\ calls[c].failure # NoFailure)
         => calls[c].result = Rejected(calls[c].failure)

C8_Witness ==
  \E c \in CallIds :
    /\ Settled(c)
    /\ calls[c].failure = [type |-> "AbortError", message |-> "The operation was aborted"]
    /\ calls[c].result = Rejected(calls[c].failure)
    /\ calls[c].fetches = 1 /\ calls[c].settles = 1

---------------------------------------------------------------------------

C9_Method(verb) ==
  CASE verb = "get" -> "GET" [] verb = "post" -> "POST" [] verb = "put" -> "PUT"
    [] verb = "patch" -> "PATCH" [] verb = "delete" -> "DELETE"

(* C9: a transport field other than headers and method that both the call's
   options and the default transport options define is dispatched with the
   default's value; the method is the verb's own whatever the two say; the
   headers are the merged headers, never those of the default options. *)
C9_MergePrecedence ==
  \A c \in CallIds :
    Dispatched(c) =>
      LET defaults == invoked[c].this.options
          own == invoked[c].options
          sent == calls[c].config
      IN /\ \A f \in (DOMAIN own \cap DOMAIN defaults) \ {"headers", "method"} :
              sent[f] = defaults[f]
         /\ sent["method"] = C9_Method(invoked[c].verb)
         /\ sent["headers"] =
              Spread(Spread(C2_VerbDefault(c), CallHeadersOf(c)), invoked[c].this.headers)

C9_Witness ==
  \E c \in CallIds :
    /\ Dispatched(c)
    /\ invoked[c].verb = "delete"
    /\ "credentials" \in DOMAIN invoked[c].options
    /\ invoked[c].options["credentials"] = "omit"
    /\ invoked[c].options["method"] = "HEAD"
    /\ "credentials" \in DOMAIN invoked[c].this.options
    /\ invoked[c].this.options["credentials"] = "include"
    /\ invoked[c].this.options["method"] = "TRACE"
    /\ invoked[c].this.options["headers"] # calls[c].config["headers"]
    /\ calls[c].config["credentials"] = "include"
    /\ calls[c].config["method"] = "DELETE"

---------------------------------------------------------------------------

C10_Stage(response) ==
  IF ~response.ok THEN "error-json"
  ELSE IF C7_SaysJson(response) THEN "json" ELSE "text"

C10_Step(c) ==
  /\ calls'[c] # calls[c] => self' = self
  /\ (calls[c].pc = "idle" /\ calls'[c].pc # "idle") =>
       /\ calls'[c].url = RequestUrl(self, invoked'[c].endpoint, invoked'[c].options)
       /\ invoked'[c].verb = "get"
       /\ calls'[c].config = RequestConfig(self, "GET", invoked'[c].options)
       /\ invoked'[c].this = self
  /\ (calls[c].pc # "idle" /\ calls'[c].pc # "idle") =>
       /\ calls'[c].url = calls[c].url
       /\ calls'[c].config = calls[c].config
       /\ invoked'[c] = invoked[c]
  /\ (calls[c].pc = "fetching" /\ calls'[c].pc # "fetching")
       => calls'[c].pc = C10_Stage(calls'[c].response)
  /\ \A d \in CallIds :
       (calls'[c].pc = "settled" /\ calls'[d].pc = "settled"
          /\ calls'[c].response = calls'[d].response)
         => calls'[c].result = calls'[d].result

(* C10: a request is fixed from the client's fields as they are when the verb
   is invoked; a reassignment made while the call is open changes neither
   the request nor the way its response is classified and decoded, which
   rest on the response alone; no step of a call changes the client. *)
C10_FixedAtInvocation == [][\A c \in CallIds : C10_Step(c)]_vars

C10_Witness ==
  \E c, d \in CallIds :
    /\ calls[c].pc = "fetching" /\ calls[d].pc = "json"
    /\ invoked[c].this.headers # self.headers
    /\ invoked[c].this.params # self.params
    /\ invoked[c].this.options # self.options
    /\ invoked[d].this # invoked[c].this
    /\ invoked[d].this # self
    /\ calls[c].config = RequestConfig(invoked[c].this, "GET", invoked[c].options)
    /\ calls[c].config # RequestConfig(self, "GET", invoked[c].options)

====
